---- MODULE Spec2Model ----
(***************************************************************************)
(* Delivery subsystem of the keg palletization station: the batch rows of  *)
(* detection_sessions, the retry_queue table, the processing task          *)
(* (_process_one), the delivery client (APISender), its retry monitor      *)
(* threads, the operator's manual operations, process crash/restart and    *)
(* recover_system.  Time is counted in minutes.  The pallet registry       *)
(* (pallet_lifecycle, PalletController) is a second specification,         *)
(* PalletSpec, with its clock in seconds.                                  *)
(***************************************************************************)
EXTENDS Integers, Sequences, FiniteSets, TLC

\* ------------------------------------------------------------------ bounds
NumBatches == 1
TickMinutes == 6
MaxNow == 12
MaxCrashes == 1
MaxManual == 1
MaxAccepted == 2
TargetCount == 2
NumCodes == 3
MaxCodes == 2
NumCallers == 2
MaxSecs == 2
SweepSpan == 3
LiveMaxNow == 24

\* ------------------------------------------------------- program constants
API_MAX_RETRIES == 3
DefaultMaxAttempts == 3
DrainLimit == 5
StaleMinutes == 10
DayMinutes == 1440
WeekMinutes == 10080
NumMonitors == 2

Batches == 1..NumBatches
Monitors == 1..NumMonitors

\* SQL NULL of a numeric column, and of a text column
Null == 0 - 1
NULL == "NULL"

VARIABLES
    now,        \* wall clock, minutes
    apiHttps,   \* the configured api_url starts with https://
    proc,       \* "running" | "down" (crashed) | "starting" (up again, not yet
                \* accepting batches)
    crashes,    \* process crashes so far
    recoveries, \* completed recover_system runs
    db,         \* detection_sessions: session -> row
    rq,         \* retry_queue: session -> entry
    pallets,    \* processed_pallets: set of fingerprints
    accepted,   \* remote service: number of 2xx answers per batch
    wpc,        \* _process_one task of each batch: position
    wloc,       \* _process_one task of each batch: locals
    mon,        \* retry monitor threads: the fetched rows and send result
    op,         \* the operator's manual operation in flight
    manuals,    \* manual operations started so far
    plc,        \* pallet_lifecycle: the rows in rowid order
    secs,       \* wall clock of the pallet registry, seconds
    cpc,        \* create_pallet call of each caller: position and argument
    pret,       \* create_pallet: what the last call of each caller returned,
                \* "none" while a call is under way
    uret,       \* update_pallet_status: 'success' or 'error' of the last return
    call        \* one _send_with_retry call of send_batch, attempt by attempt

batchVars == <<now, apiHttps, proc, crashes, recoveries, db, rq, pallets,
               accepted, wpc, wloc, mon, op, manuals>>

palletVars == <<plc, secs, cpc, pret, uret>>

clientVars == <<call>>

vars == <<batchVars, palletVars, clientVars>>

\* ----------------------------------------------------------------- tables
NoRow ==
    [status |-> "absent", apiStatus |-> "pending", apiAttempts |-> 0,
     attention |-> FALSE, reason |-> NULL, payload |-> Null, response |-> NULL,
     ts |-> 0, decoded |-> Null, target |-> TargetCount, alerts |-> 0]

NoEntry == [present |-> FALSE]

Pow2(n) == IF n <= 0 THEN 1 ELSE 2 ^ n

Min(a, b) == IF a <= b THEN a ELSE b

\* database.py start_session: the INSERT and the column defaults
start_session(t, target) ==
    [status |-> "captured", apiStatus |-> "pending", apiAttempts |-> 0,
     attention |-> FALSE, reason |-> NULL, payload |-> Null, response |-> NULL,
     ts |-> t, decoded |-> Null, target |-> target, alerts |-> 0]

\* database.py update_batch_status: one UPDATE of one row
update_batch_status(r, status, error_msg, require_attention, attention_reason) ==
    [r EXCEPT
        !.status = status,
        !.apiAttempts = IF status = "api_failed" THEN @ + 1 ELSE @,
        \* the api_failure row inserted into system_alerts
        !.alerts = IF status = "api_failed" /\ error_msg # NULL THEN @ + 1 ELSE @,
        !.attention = require_attention,
        !.reason = IF require_attention
                   THEN (IF attention_reason # NULL THEN attention_reason ELSE @)
                   ELSE NULL]

\* database.py mark_for_attention and api_sender.py _mark_for_attention
mark_for_attention(r, why) ==
    [r EXCEPT !.attention = TRUE, !.reason = why]

\* database.py resolve_attention
resolve_attention(r) ==
    [r EXCEPT !.attention = FALSE]

\* database.py mark_batch_resolved
mark_batch_resolved(r) ==
    [r EXCEPT !.attention = FALSE, !.reason = "Manually resolved",
              !.status = "manual_resolved"]

\* database.py store_qr_codes: the number of distinct codes of the list
UniqueCount(codes) == Cardinality({codes[i] : i \in 1..Len(codes)})

\* database.py store_qr_codes: the UPDATE of the session row
store_qr_codes(r, codes) ==
    [r EXCEPT !.decoded = UniqueCount(codes), !.status = "processing"]

\* database.py store_api_payload
store_api_payload(r, p) ==
    [r EXCEPT !.payload = p, !.status = "api_pending"]

\* database.py finish_session: api_status from api_success
finish_session(r, api_success) ==
    [r EXCEPT !.apiStatus = IF api_success THEN "success" ELSE "failed"]

\* database.py add_to_retry_queue and api_sender.py _add_to_retry_queue:
\* read the attempts, INSERT OR REPLACE with attempts + 1
add_to_retry_queue(e, p, t) ==
    LET attempts == IF e.present THEN e.attempts + 1 ELSE 1
    IN  [present |-> TRUE, payload |-> p, attempts |-> attempts,
         max_attempts |-> DefaultMaxAttempts,
         next_retry |-> t + Pow2(attempts - 1), created_at |-> t,
         last_attempt |-> t]

\* fault model: the DELETE is lost
keep_in_retry_queue(e) == e

\* database.py remove_from_retry_queue and api_sender.py _remove_from_retry_queue
remove_from_retry_queue(e) == NoEntry

\* api_sender.py _update_retry_attempts: UPDATE ... WHERE session_id
update_retry_attempts(e, attempts, t) ==
    IF e.present
    THEN [e EXCEPT !.attempts = attempts, !.next_retry = t + Pow2(attempts),
                   !.last_attempt = t]
    ELSE e

\* the key-sorted hash that _send_with_retry embeds into the payload it is given
\* (payloads are represented by the number of hash layers they carry)
AddHash(p) == p + 1

\* ------------------------------------------------------ the delivery client
\* What one POST of _send_with_retry's loop can meet:
\*   "ok"          200 or 201
\*   "other2xx"    a 2xx answer other than 200 and 201 (the service accepted)
\*   "fail"        any other status, a timeout or a network error
\*   "ssl_fb_ok"   SSLError, then the http:// fallback answers 200 or 201
\*   "ssl_fb_2xx"  SSLError, then the fallback answers another 2xx
\*   "ssl_fb_fail" SSLError, then the fallback fails too
\*   "exc"         any other exception
RespKinds(https) ==
    {"ok", "other2xx", "fail", "exc"} \cup
    (IF https THEN {"ssl_fb_ok", "ssl_fb_2xx", "ssl_fb_fail"} ELSE {})

\* api_sender.py _send_with_retry, the for loop: attempt i of resps, the number
\* of 2xx answers so far; ends at the first success, at "exc" or after
\* max_retries attempts
RECURSIVE send_loop(_, _, _)
send_loop(resps, i, acc) ==
    IF i > Len(resps)
    THEN [kind |-> "fail", accepted |-> acc, attempts |-> Len(resps)]
    ELSE LET r == resps[i] IN
         CASE r = "ok" -> [kind |-> "ok", accepted |-> acc + 1, attempts |-> i]
           [] r = "ssl_fb_ok" ->
                [kind |-> "fb_ok", accepted |-> acc + 1, attempts |-> i]
           [] r = "exc" -> [kind |-> "fail", accepted |-> acc, attempts |-> i]
           [] r \in {"other2xx", "ssl_fb_2xx"} -> send_loop(resps, i + 1, acc + 1)
           [] OTHER -> send_loop(resps, i + 1, acc)

\* every result of the loop over max_retries attempts: the kind of return and
\* how many times the service answered 2xx
SendOutcomes(https) ==
    {[kind |-> o.kind, accepted |-> o.accepted] :
        o \in {send_loop(resps, 1, 0) :
                 resps \in [1..API_MAX_RETRIES -> RespKinds(https)]}}

OutcomesHttp == SendOutcomes(FALSE)
OutcomesHttps == SendOutcomes(TRUE)
Outcomes == IF apiHttps THEN OutcomesHttps ELSE OutcomesHttp

\* fault model: the error UPDATE raises the flag and leaves the reason alone
send_with_retry_record_flag_only(r, kind) ==
    CASE kind = "ok" -> [r EXCEPT !.status = "api_sent", !.response = "resp"]
      [] kind = "fb_ok" -> r
      [] OTHER -> [r EXCEPT !.status = "api_failed", !.attention = TRUE]

\* api_sender.py _send_with_retry, after the loop: the UPDATE of the row on a
\* 200/201 of the primary channel, none on a fallback success, the error
\* UPDATE on failure (last_error is set by every failed attempt)
send_with_retry_record(r, kind) ==
    CASE kind = "ok" -> [r EXCEPT !.status = "api_sent", !.response = "resp"]
      [] kind = "fb_ok" -> r
      [] OTHER -> [r EXCEPT !.status = "api_failed", !.attention = TRUE,
                            !.reason = "Send failure"]

Succeeded(kind) == kind \in {"ok", "fb_ok"}

\* api_sender.py send_batch, before the send: payload and api_pending
send_batch_store(r, p) ==
    [r EXCEPT !.payload = p, !.status = "api_pending"]

\* api_sender.py send_batch, after _send_with_retry: the row
send_batch_row(r, kind) ==
    IF Succeeded(kind)
    THEN send_with_retry_record(r, kind)
    ELSE mark_for_attention(send_with_retry_record(r, kind), "API send failure")

\* fault model: send_batch hands nothing to the retry queue
send_batch_queue_dropped(e, kind, p, t) == e

\* api_sender.py send_batch, after _send_with_retry: the retry queue entry
send_batch_queue(e, kind, p, t) ==
    IF Succeeded(kind) THEN e ELSE add_to_retry_queue(e, AddHash(p), t)

\* ------------------------------------------------------------ fingerprints
\* the code lists a detection can return; codes are numbered
CodeLists == {<< >>, <<1>>, <<1, 2>>, <<2, 1>>, <<1, 2, 3>>}

\* database.py is_pallet_processed / mark_pallet_processed: the fingerprint is
\* the sorted code list
\* fault model: the codes are serialized in the order of detection
FingerprintUnsorted(codes) == codes

Fingerprint(codes) == SortSeq(codes, LAMBDA x, y : x < y)

\* database.py is_pallet_processed: the length test and the SELECT, on the
\* processed_pallets rows set
pallet_in_registry(set, codes, required_count) ==
    Len(codes) = required_count /\ Fingerprint(codes) \in set

is_pallet_processed(codes, required_count) ==
    pallet_in_registry(pallets, codes, required_count)

\* fault model: the row is inserted whatever the number of codes
mark_pallet_processed_any(set, codes, required_count) ==
    set \cup {Fingerprint(codes)}

mark_pallet_processed(set, codes, required_count) ==
    IF Len(codes) = required_count THEN set \cup {Fingerprint(codes)} ELSE set

\* no _send_with_retry call is traced
NoCall == [pc |-> "idle"]

\* ------------------------------------------------------ the pallet registry
Callers == 1..NumCallers

\* the code lists create_pallet is called with
PalletCodeLists == {<<1, 2>>, <<2, 1>>, <<3>>}

\* config.PALLET_STATUS, the allowed statuses
PALLET_STATUS == {"CREATED", "SHIPPED"}

\* the statuses update_pallet_status is called with
StatusInputs == PALLET_STATUS \cup {"UNKNOWN"}

\* the pallet ids update_pallet_status is called with
PalletIds == 0..MaxSecs

AtRest == [pc |-> "idle"]

\* database.py check_pallet_duplicate: the rows whose qr_codes is the
\* fingerprint, whatever their status
MatchingRows(table, fp) == {i \in 1..Len(table) : table[i].qr_codes = fp}

\* database.py check_pallet_duplicate: fetchone() takes the first row of the
\* table scan, the one of lowest rowid
check_pallet_duplicate(table, qr_codes) ==
    LET hits == MatchingRows(table, Fingerprint(qr_codes))
    IN  IF hits = {}
        THEN [pallet_id |-> Null, status |-> NULL]
        ELSE LET i == CHOOSE i \in hits : \A j \in hits : i <= j
             IN  [pallet_id |-> table[i].pallet_id, status |-> table[i].status]

\* database.py create_pallet_record: PALLET_<epoch seconds>
NewPalletId(t) == t

\* database.py create_pallet_record: pallet_id is the PRIMARY KEY, the INSERT
\* of a second row of the same second raises IntegrityError
PrimaryKeyTaken(table, id) == \E i \in 1..Len(table) : table[i].pallet_id = id

\* database.py create_pallet_record: the INSERT with status 'CREATED'
create_pallet_record(table, qr_codes, t) ==
    Append(table, [pallet_id |-> NewPalletId(t),
                   qr_codes |-> Fingerprint(qr_codes),
                   status |-> "CREATED", shipped_at |-> Null])

\* pallet_controller.py update_pallet_status: the UPDATE ... WHERE pallet_id
update_pallet_row(row, pallet_id, new_status, t) ==
    IF row.pallet_id # pallet_id THEN row
    ELSE IF new_status = "SHIPPED"
         THEN [row EXCEPT !.status = new_status, !.shipped_at = t]
         ELSE [row EXCEPT !.status = new_status]

\* ------------------------------------------------------------------- Init
InitButRegistry ==
    /\ now = 0
    /\ apiHttps \in BOOLEAN
    /\ proc = "running"
    /\ crashes = 0
    /\ recoveries = 0
    /\ db = [b \in Batches |-> NoRow]
    /\ rq = [b \in Batches |-> NoEntry]
    /\ accepted = [b \in Batches |-> 0]
    /\ wpc = [b \in Batches |-> "none"]
    /\ wloc = [b \in Batches |-> [already |-> FALSE, res |-> "none"]]
    /\ mon = [m \in Monitors |-> [list |-> << >>, res |-> "none"]]
    /\ op = [kind |-> "idle"]
    /\ manuals = 0
    /\ plc = << >>
    /\ secs = 0
    /\ cpc = [c \in Callers |-> AtRest]
    /\ pret = [c \in Callers |-> [kind |-> "none"]]
    /\ uret = "none"
    /\ call = NoCall

Init == InitButRegistry /\ pallets = {}

\* the station has processed a pallet of the codes 1 and 2 in an earlier run:
\* its row is in processed_pallets
RegisteredInit == InitButRegistry /\ pallets = {Fingerprint(<<1, 2>>)}

\* ------------------------------------------------- the processing task
\* process_worker.py submit_batch: start_session, then the task is queued
SubmitBatch(b) ==
    /\ proc = "running"
    /\ db[b].status = "absent"
    /\ \A c \in Batches : c < b => db[c].status # "absent"
    /\ db' = [db EXCEPT ![b] = start_session(now, TargetCount)]
    /\ wpc' = [wpc EXCEPT ![b] = "queued"]
    /\ UNCHANGED <<palletVars, call, now, apiHttps, proc, crashes, recoveries, rq, pallets,
                   accepted, wloc, mon, op, manuals>>

\* process_worker.py _process_one, lines 40-44: status 'processing'
ProcessBegin(b) ==
    /\ proc = "running"
    /\ wpc[b] = "queued"
    /\ db' = [db EXCEPT ![b] =
                update_batch_status(@, "processing", NULL, FALSE, "Processing started")]
    /\ wpc' = [wpc EXCEPT ![b] = "detecting"]
    /\ UNCHANGED <<palletVars, call, now, apiHttps, proc, crashes, recoveries, rq, pallets,
                   accepted, wloc, mon, op, manuals>>

\* process_worker.py _process_one, lines 47-59: the frame cannot be read
frame_error(r) ==
    mark_for_attention(
        update_batch_status(finish_session(r, FALSE), "api_failed", "error", TRUE,
                            "Frame read error"),
        "Frame read error")

\* process_worker.py _process_one, lines 70-88: advanced detection raised
advanced_error(r, advExc) ==
    IF advExc
    THEN mark_for_attention(
             update_batch_status(r, "api_failed", "error", TRUE,
                                 "Advanced detection error"),
             "Advanced detection error")
    ELSE r

\* process_worker.py _process_one, lines 102-113: the row of a batch whose
\* codes are those of a pallet processed before
duplicate_warning(r, already) ==
    IF already THEN update_batch_status(r, "processing", "warning", FALSE, NULL)
    ELSE r

\* fault model: a batch is sent whatever its code list
sent_even_if_empty(already, qr_list) == TRUE

\* fault model: a batch found to be a duplicate is not sent
sent_unless_duplicate(already, qr_list) == qr_list # << >> /\ ~already

\* process_worker.py _process_one, lines 159-199: only an empty code list
\* keeps the task from calling send_batch
goes_to_send(already, qr_list) == qr_list # << >>

\* process_worker.py _process_one, lines 125-133: fewer codes than required
batch_miss(r, decoded_cnt, required_count) ==
    IF decoded_cnt < required_count
    THEN mark_for_attention(
             update_batch_status(r, "api_failed", "error", TRUE,
                                 "Batch miss - incomplete QRs"),
             "Batch miss: Decoded")
    ELSE r

\* process_worker.py _process_one, lines 257-268: the catch-all handler
processing_crashed(r) ==
    mark_for_attention(
        update_batch_status(finish_session(r, FALSE), "api_failed", "error", TRUE,
                            "Processing crashed"),
        "Unexpected processing error")

\* process_worker.py _process_one, lines 47-199 and api_sender.py send_batch
\* lines 150-183: read the frame, detect, store the codes, build and store the
\* payload, then _send_with_retry's POSTs (lines 230-353, outside every lock)
\* with result o
ProcessDetect(b, frameOk, codes, advExc, o) ==
    /\ proc = "running"
    /\ wpc[b] = "detecting"
    /\ advExc => Len(codes) < db[b].target
    /\ LET required == db[b].target
           already == is_pallet_processed(codes, required)
           stored == batch_miss(
                         store_qr_codes(
                             duplicate_warning(advanced_error(db[b], advExc),
                                               already),
                             codes),
                         UniqueCount(codes), required)
       IN  IF ~frameOk
           THEN /\ db' = [db EXCEPT ![b] = frame_error(@)]
                /\ wpc' = [wpc EXCEPT ![b] = "done"]
                /\ UNCHANGED <<pallets, wloc, accepted>>
           ELSE /\ pallets' = mark_pallet_processed(pallets, codes, required)
                /\ IF ~goes_to_send(already, codes)
                   \* db.update_api_status does not exist: AttributeError
                   THEN /\ db' = [db EXCEPT ![b] = processing_crashed(stored)]
                        /\ wpc' = [wpc EXCEPT ![b] = "done"]
                        /\ wloc' = [wloc EXCEPT ![b].already = already]
                        /\ UNCHANGED accepted
                   ELSE /\ db' = [db EXCEPT ![b] =
                                    send_batch_store(store_api_payload(stored, 0), 0)]
                        /\ accepted[b] + o.accepted <= MaxAccepted
                        /\ accepted' = [accepted EXCEPT ![b] = @ + o.accepted]
                        /\ wloc' = [wloc EXCEPT ![b] =
                                      [already |-> already, res |-> o.kind]]
                        /\ wpc' = [wpc EXCEPT ![b] = "responded"]
    /\ UNCHANGED <<palletVars, call, now, apiHttps, proc, crashes, recoveries, rq, mon, op, manuals>>

\* api_sender.py _send_with_retry lines 278-301 / 355-379 and send_batch lines
\* 183-191: the bookkeeping up to send_batch's return
ProcessReturn(b) ==
    /\ proc = "running"
    /\ wpc[b] = "responded"
    /\ db' = [db EXCEPT ![b] = send_batch_row(@, wloc[b].res)]
    /\ rq' = [rq EXCEPT ![b] = send_batch_queue(@, wloc[b].res, 0, now)]
    /\ wpc' = [wpc EXCEPT ![b] = "returned"]
    /\ UNCHANGED <<palletVars, call, now, apiHttps, proc, crashes, recoveries, pallets, accepted,
                   wloc, mon, op, manuals>>

\* process_worker.py _process_one, lines 201-249: after send_batch returned: the row
process_tail_row(r, api_success, already) ==
    IF api_success
    THEN update_batch_status(finish_session(r, TRUE), "api_sent", NULL, FALSE, NULL)
    ELSE LET f == finish_session(mark_for_attention(r, "API send failure"), FALSE)
         IN  IF ~already
             THEN mark_for_attention(
                      update_batch_status(f, "api_failed", "error", TRUE, "API failure"),
                      "API failure")
             ELSE f

\* process_worker.py _process_one, lines 201-211: the retry queue entry
process_tail_queue(e, api_success, p, t) ==
    IF api_success
    THEN remove_from_retry_queue(e)
    ELSE add_to_retry_queue(e, AddHash(p), t)

ProcessTail(b) ==
    /\ proc = "running"
    /\ wpc[b] = "returned"
    /\ db' = [db EXCEPT ![b] =
                process_tail_row(@, Succeeded(wloc[b].res), wloc[b].already)]
    /\ rq' = [rq EXCEPT ![b] =
                process_tail_queue(@, Succeeded(wloc[b].res), 0, now)]
    /\ wpc' = [wpc EXCEPT ![b] = "done"]
    /\ UNCHANGED <<palletVars, call, now, apiHttps, proc, crashes, recoveries, pallets, accepted,
                   wloc, mon, op, manuals>>

\* ------------------------------------------------- the retry monitors
\* api_sender.py _process_retry_queue, the SELECT: WHERE next_retry <= now AND
\* attempts < max_attempts
Eligible(q, t) ==
    {b \in Batches : q[b].present /\ q[b].next_retry <= t
                     /\ q[b].attempts < q[b].max_attempts}

\* ORDER BY next_retry ASC LIMIT 5: every order the SELECT can return (ties in
\* any order), each row a snapshot of session_id, payload and attempts
select_due(q, t) ==
    LET S == Eligible(q, t)
        n == Cardinality(S)
        sorted == {s \in [1..n -> S] :
                     /\ \A i, j \in 1..n : i # j => s[i] # s[j]
                     /\ \A i, j \in 1..n :
                            i < j => q[s[i]].next_retry <= q[s[j]].next_retry}
    IN  {[i \in 1..Min(n, DrainLimit) |->
            [sid |-> s[i], payload |-> q[s[i]].payload,
             attempts |-> q[s[i]].attempts]] : s \in sorted}

Up == proc \in {"running", "starting"}

\* fault model: a failed drain leaves the entry as it is
drain_queue_uncounted(e, kind, attempts, t) ==
    IF Succeeded(kind) THEN remove_from_retry_queue(e) ELSE e

\* api_sender.py _process_retry_queue lines 489-492: the queue entry after the send
drain_queue(e, kind, attempts, t) ==
    IF Succeeded(kind)
    THEN remove_from_retry_queue(e)
    ELSE update_retry_attempts(e, attempts + 1, t)

\* api_sender.py _process_retry_queue, lines 463-487: one tick of one monitor
\* thread reads the due rows, then _send_with_retry's POSTs for the first row
\* (outside every lock) with result o
MonitorFetch(m, o) ==
    /\ Up
    /\ mon[m].list = << >>
    /\ Eligible(rq, now) # {}
    /\ \E rows \in select_due(rq, now) :
          /\ mon' = [mon EXCEPT ![m] = [list |-> rows, res |-> o.kind]]
          /\ accepted[rows[1].sid] + o.accepted <= MaxAccepted
          /\ accepted' = [accepted EXCEPT ![rows[1].sid] = @ + o.accepted]
    /\ UNCHANGED <<palletVars, call, now, apiHttps, proc, crashes, recoveries, db, rq, pallets,
                   wpc, wloc, op, manuals>>

\* api_sender.py _send_with_retry's bookkeeping (lines 278-301 / 355-379) and
\* _process_retry_queue lines 489-492 for the row just sent; then the POSTs for
\* the next fetched row, if any, with result o
MonitorRecord(m, o) ==
    /\ Up
    /\ mon[m].list # << >>
    /\ LET row == Head(mon[m].list)
           b == row.sid
           rest == Tail(mon[m].list)
       IN  /\ db' = [db EXCEPT ![b] = send_with_retry_record(@, mon[m].res)]
           /\ rq' = [rq EXCEPT ![b] =
                        drain_queue(@, mon[m].res, row.attempts, now)]
           /\ IF rest = << >>
              THEN /\ o.kind = "fail" /\ o.accepted = 0
                   /\ mon' = [mon EXCEPT ![m] = [list |-> << >>, res |-> "none"]]
                   /\ UNCHANGED accepted
              ELSE /\ mon' = [mon EXCEPT ![m] = [list |-> rest, res |-> o.kind]]
                   /\ accepted[rest[1].sid] + o.accepted <= MaxAccepted
                   /\ accepted' = [accepted EXCEPT ![rest[1].sid] = @ + o.accepted]
    /\ UNCHANGED <<palletVars, call, now, apiHttps, proc, crashes, recoveries, pallets,
                   wpc, wloc, op, manuals>>

\* ------------------------------------------------- the operator
Idle == [kind |-> "idle"]

\* database.py mark_batch_resolved, called for a batch row
ManualResolve(b) ==
    /\ proc = "running"
    /\ op = Idle
    /\ manuals < MaxManual
    /\ db[b].status # "absent"
    /\ db' = [db EXCEPT ![b] = mark_batch_resolved(@)]
    /\ manuals' = manuals + 1
    /\ UNCHANGED <<palletVars, call, now, apiHttps, proc, crashes, recoveries, rq, pallets,
                   accepted, wpc, wloc, mon, op>>

\* database.py resolve_attention, called for a batch row
ResolveAttention(b) ==
    /\ proc = "running"
    /\ op = Idle
    /\ manuals < MaxManual
    /\ db[b].status # "absent"
    /\ db' = [db EXCEPT ![b] = resolve_attention(@)]
    /\ manuals' = manuals + 1
    /\ UNCHANGED <<palletVars, call, now, apiHttps, proc, crashes, recoveries, rq, pallets,
                   accepted, wpc, wloc, mon, op>>

\* api_sender.py retry_single_batch, lines 588-616: read api_payload, set
\* api_pending (no payload: return False, nothing changes), then
\* _send_with_retry's POSTs with result o
RetrySingleStart(b, o) ==
    /\ proc = "running"
    /\ op = Idle
    /\ manuals < MaxManual
    /\ db[b].status # "absent"
    /\ db[b].payload # Null
    /\ db' = [db EXCEPT ![b].status = "api_pending"]
    /\ op' = [kind |-> "retry_single", sid |-> b, res |-> o.kind]
    /\ accepted[b] + o.accepted <= MaxAccepted
    /\ accepted' = [accepted EXCEPT ![b] = @ + o.accepted]
    /\ manuals' = manuals + 1
    /\ UNCHANGED <<palletVars, call, now, apiHttps, proc, crashes, recoveries, rq, pallets,
                   wpc, wloc, mon>>

\* process_worker.py retry_failed_batch, lines 374-414 and send_batch lines
\* 150-183: a fresh payload from the stored codes (none: return False), then
\* _send_with_retry's POSTs with result o
RetryFailedStart(b, o) ==
    /\ proc = "running"
    /\ op = Idle
    /\ manuals < MaxManual
    /\ db[b].status # "absent"
    /\ db[b].decoded # Null /\ db[b].decoded > 0
    /\ db' = [db EXCEPT ![b] = send_batch_store(@, 0)]
    /\ op' = [kind |-> "retry_failed", sid |-> b, res |-> o.kind]
    /\ accepted[b] + o.accepted <= MaxAccepted
    /\ accepted' = [accepted EXCEPT ![b] = @ + o.accepted]
    /\ manuals' = manuals + 1
    /\ UNCHANGED <<palletVars, call, now, apiHttps, proc, crashes, recoveries, rq, pallets,
                   wpc, wloc, mon>>

\* api_sender.py retry_single_batch lines 616-624: the queue entry
retry_single_queue(e, kind) ==
    IF Succeeded(kind) THEN remove_from_retry_queue(e) ELSE e

\* api_sender.py retry_single_batch, lines 616-624, with _send_with_retry's
\* bookkeeping
RetrySingleFinish ==
    /\ proc = "running"
    /\ op.kind = "retry_single"
    /\ db' = [db EXCEPT ![op.sid] = send_with_retry_record(@, op.res)]
    /\ rq' = [rq EXCEPT ![op.sid] = retry_single_queue(@, op.res)]
    /\ op' = Idle
    /\ UNCHANGED <<palletVars, call, now, apiHttps, proc, crashes, recoveries, pallets, accepted,
                   wpc, wloc, mon, manuals>>

\* send_batch's bookkeeping up to its return to retry_failed_batch
RetryFailedReturn ==
    /\ proc = "running"
    /\ op.kind = "retry_failed"
    /\ db' = [db EXCEPT ![op.sid] = send_batch_row(@, op.res)]
    /\ rq' = [rq EXCEPT ![op.sid] = send_batch_queue(@, op.res, 0, now)]
    /\ op' = [op EXCEPT !.kind = "retry_failed_returned"]
    /\ UNCHANGED <<palletVars, call, now, apiHttps, proc, crashes, recoveries, pallets, accepted,
                   wpc, wloc, mon, manuals>>

\* process_worker.py retry_failed_batch, lines 416-424: the row
retry_failed_row(r, success) ==
    IF success
    THEN resolve_attention(update_batch_status(r, "api_sent", NULL, FALSE, NULL))
    ELSE r

\* process_worker.py retry_failed_batch, lines 416-424: the queue entry
retry_failed_queue(e, success, p, t) ==
    IF success
    THEN remove_from_retry_queue(e)
    ELSE add_to_retry_queue(e, AddHash(p), t)

RetryFailedTail ==
    /\ proc = "running"
    /\ op.kind = "retry_failed_returned"
    /\ db' = [db EXCEPT ![op.sid] = retry_failed_row(@, Succeeded(op.res))]
    /\ rq' = [rq EXCEPT ![op.sid] =
                retry_failed_queue(@, Succeeded(op.res), 0, now)]
    /\ op' = Idle
    /\ UNCHANGED <<palletVars, call, now, apiHttps, proc, crashes, recoveries, pallets, accepted,
                   wpc, wloc, mon, manuals>>

\* ------------------------------------------------- crash, restart, recovery
InFlight == {"queued", "detecting", "responded", "returned"}

\* power loss or kill: every task and thread of the process is gone
Crash ==
    /\ Up
    /\ crashes < MaxCrashes
    /\ crashes' = crashes + 1
    /\ proc' = "down"
    /\ wpc' = [b \in Batches |-> IF wpc[b] \in InFlight THEN "dead" ELSE wpc[b]]
    /\ mon' = [m \in Monitors |-> [list |-> << >>, res |-> "none"]]
    /\ op' = Idle
    /\ UNCHANGED <<palletVars, call, now, apiHttps, recoveries, db, rq, pallets, accepted, wloc,
                   manuals>>

\* database.py _migrate_schema, lines 229-235: run by every DatabaseManager()
migrate_schema(r) ==
    IF r.status = "absent" THEN r
    ELSE [r EXCEPT !.status =
            CASE r.apiStatus = "success" -> "api_sent"
              [] r.apiStatus = "failed" -> "api_failed"
              [] OTHER -> "api_pending"]

\* process start: process_worker.py lines 18-19 build DatabaseManager() and
\* APISender(), whose monitor thread starts at once
Start ==
    /\ proc = "down"
    /\ proc' = "starting"
    /\ db' = [b \in Batches |-> migrate_schema(db[b])]
    /\ UNCHANGED <<palletVars, call, now, apiHttps, crashes, recoveries, rq, pallets, accepted,
                   wpc, wloc, mon, op, manuals>>

\* main.py lines 471-480 and recover_batches (lines 1577-1584): the start-up
\* tasks only read the stuck batches (get_stuck_batches), recover_system is not
\* called; the start-up is over and captures are accepted
Ready ==
    /\ proc = "starting"
    /\ proc' = "running"
    /\ UNCHANGED <<palletVars, call, now, apiHttps, crashes, recoveries, db, rq, pallets,
                   accepted, wpc, wloc, mon, op, manuals>>

\* fault model: the SELECT of step 1 also takes the rows already failed
IsStuckOrFailed(r, t) ==
    r.status \in {"processing", "api_pending", "api_failed"}
    /\ r.ts < t - StaleMinutes

\* recovery.py recover_system, step 1 (lines 22-54)
IsStuck(r, t) ==
    r.status \in {"processing", "api_pending"} /\ r.ts < t - StaleMinutes

\* recovery.py lines 50-54: the batch_recovery rows one run inserts into
\* system_events for the batch of row r
recover_events(r, t) == IF IsStuck(r, t) THEN 1 ELSE 0

recover_stuck(r, t) ==
    IF IsStuck(r, t)
    THEN [r EXCEPT !.status = "api_failed", !.attention = TRUE,
                   !.reason = "Stuck during system restart"]
    ELSE r

\* recovery.py recover_system, step 2 (lines 56-81), on the rows step 1 left
IsPendingUnsent(r, t) ==
    /\ r.status = "api_pending"
    /\ r.apiAttempts = 0
    /\ r.payload # Null
    /\ r.ts > t - DayMinutes

recover_requeue(e, r, t) ==
    IF IsPendingUnsent(r, t)
    THEN [present |-> TRUE, payload |-> r.payload, attempts |-> 0,
          max_attempts |-> DefaultMaxAttempts, next_retry |-> t,
          created_at |-> t, last_attempt |-> Null]
    ELSE e

\* fault model: the DELETE takes every entry older than the window
recover_sweep_any_old(e, t) ==
    IF e.present /\ e.created_at < t - WeekMinutes THEN NoEntry ELSE e

\* recovery.py recover_system, step 3 (lines 83-92)
recover_sweep(e, t) ==
    IF e.present /\ e.created_at < t - WeekMinutes /\ e.attempts >= e.max_attempts
    THEN NoEntry
    ELSE e

\* recovery.py recover_system, lines 103-110
recover_miss(r) ==
    IF r.status \notin {"absent", "api_sent"} /\ r.decoded # Null
       /\ r.decoded < r.target
    THEN [r EXCEPT !.attention = TRUE, !.reason = "Batch miss - incomplete QRs"]
    ELSE r

\* recovery.py recover_system: one transaction
recover_row(r, t) == recover_miss(recover_stuck(r, t))

recover_entry(e, r, t) == recover_sweep(recover_requeue(e, recover_stuck(r, t), t), t)

Recover ==
    /\ proc \in {"down", "starting"}
    /\ recoveries < crashes
    /\ recoveries' = recoveries + 1
    /\ db' = [b \in Batches |-> recover_row(db[b], now)]
    /\ rq' = [b \in Batches |-> recover_entry(rq[b], db[b], now)]
    /\ UNCHANGED <<palletVars, call, now, apiHttps, proc, crashes, pallets, accepted, wpc, wloc,
                   mon, op, manuals>>

\* the clock: TickMinutes minutes pass. A send call and the bookkeeping after it
\* last seconds, so no call is under way across a tick.
Tick ==
    /\ now + TickMinutes <= MaxNow
    /\ \A b \in Batches : wpc[b] \notin {"responded", "returned"}
    /\ op = Idle
    /\ \A m \in Monitors : mon[m].list = << >>
    /\ now' = now + TickMinutes
    /\ UNCHANGED <<palletVars, call, apiHttps, proc, crashes, recoveries, db, rq, pallets,
                   accepted, wpc, wloc, mon, op, manuals>>

Next ==
    \/ \E b \in Batches : SubmitBatch(b)
    \/ \E b \in Batches : ProcessBegin(b)
    \/ \E b \in Batches, frameOk \in BOOLEAN, codes \in CodeLists, advExc \in BOOLEAN :
         \E o \in Outcomes : ProcessDetect(b, frameOk, codes, advExc, o)
    \/ \E b \in Batches : ProcessReturn(b)
    \/ \E b \in Batches : ProcessTail(b)
    \/ \E m \in Monitors : \E o \in Outcomes : MonitorFetch(m, o)
    \/ \E m \in Monitors : \E o \in Outcomes : MonitorRecord(m, o)
    \/ \E b \in Batches : ManualResolve(b)
    \/ \E b \in Batches : ResolveAttention(b)
    \/ \E b \in Batches : \E o \in Outcomes : RetrySingleStart(b, o)
    \/ \E b \in Batches : \E o \in Outcomes : RetryFailedStart(b, o)
    \/ RetrySingleFinish
    \/ RetryFailedReturn
    \/ RetryFailedTail
    \/ Crash
    \/ Start
    \/ Ready
    \/ Recover
    \/ Tick

Spec == Init /\ [][Next]_vars

\* the same station with a pallet of an earlier run in processed_pallets
RegisteredSpec == RegisteredInit /\ [][Next]_vars

\* ------------------------------------------- the pallet registry: actions
\* pallet_controller.py create_pallet is entered by caller c
CreateCall(c, qr_codes) ==
    /\ cpc[c].pc = "idle"
    /\ cpc' = [cpc EXCEPT ![c] = [pc |-> "check", qr_codes |-> qr_codes]]
    /\ pret' = [pret EXCEPT ![c] = [kind |-> "none"]]
    /\ UNCHANGED <<batchVars, call, plc, secs, uret>>

\* pallet_controller.py create_pallet, lines 20-30: check_pallet_duplicate
\* under db_lock, then the PALLET_EXISTS return
CreateCheck(c) ==
    /\ cpc[c].pc = "check"
    /\ LET found == check_pallet_duplicate(plc, cpc[c].qr_codes)
       IN  IF found.pallet_id # Null /\ found.status # "SHIPPED"
           THEN /\ pret' = [pret EXCEPT ![c] =
                              [kind |-> "rejected", pallet_id |-> found.pallet_id,
                               status |-> found.status]]
                /\ cpc' = [cpc EXCEPT ![c] = AtRest]
           ELSE /\ cpc' = [cpc EXCEPT ![c].pc = "insert"]
                /\ UNCHANGED pret
    /\ UNCHANGED <<batchVars, call, plc, secs, uret>>

\* pallet_controller.py create_pallet, lines 33-52: create_pallet_record under
\* db_lock, then the return; an IntegrityError leaves create_pallet as raised
CreateInsert(c) ==
    /\ cpc[c].pc = "insert"
    /\ cpc' = [cpc EXCEPT ![c] = AtRest]
    /\ IF PrimaryKeyTaken(plc, NewPalletId(secs))
       THEN /\ pret' = [pret EXCEPT ![c] = [kind |-> "raised"]]
            /\ UNCHANGED plc
       ELSE /\ plc' = create_pallet_record(plc, cpc[c].qr_codes, secs)
            /\ pret' = [pret EXCEPT ![c] =
                           [kind |-> "created", pallet_id |-> NewPalletId(secs),
                            status |-> "CREATED"]]
    /\ UNCHANGED <<batchVars, call, secs, uret>>

\* pallet_controller.py update_pallet_status
UpdatePalletStatus(pallet_id, new_status) ==
    /\ IF new_status \notin PALLET_STATUS
       THEN /\ uret' = "INVALID_STATUS"
            /\ UNCHANGED plc
       ELSE /\ plc' = [i \in 1..Len(plc) |->
                         update_pallet_row(plc[i], pallet_id, new_status, secs)]
            /\ uret' = "success"
    /\ UNCHANGED <<batchVars, call, secs, cpc, pret>>

\* the clock of the registry: one second passes
PalletTick ==
    /\ secs < MaxSecs
    /\ secs' = secs + 1
    /\ UNCHANGED <<batchVars, call, plc, cpc, pret, uret>>

PalletInit == Init /\ apiHttps = FALSE

PalletNext ==
    \/ \E c \in Callers, qr_codes \in PalletCodeLists : CreateCall(c, qr_codes)
    \/ \E c \in Callers : CreateCheck(c)
    \/ \E c \in Callers : CreateInsert(c)
    \/ \E id \in PalletIds, st \in StatusInputs : UpdatePalletStatus(id, st)
    \/ PalletTick

PalletSpec == PalletInit /\ [][PalletNext]_vars

\* ----------------------- one send_batch call of the delivery client, traced
\* fault model: the wait doubles from 2 seconds on
WaitDoubled(i) == 2 ^ i

\* api_sender.py _send_with_retry, line 351: the wait after the i-th attempt of
\* the call
WaitSeconds(i) == 2 ^ (i - 1)

\* fault model: an unexpected exception is retried like a network error
attempt_result_retrying(r) ==
    CASE r = "ok" -> "ok"
      [] r = "ssl_fb_ok" -> "fb_ok"
      [] OTHER -> "retry"

\* api_sender.py _send_with_retry, lines 265-347: what the attempt that met r
\* does: return True ("ok", "fb_ok"), go round the loop ("retry"), or break
attempt_result(r) ==
    CASE r = "ok" -> "ok"
      [] r = "ssl_fb_ok" -> "fb_ok"
      [] r = "exc" -> "break"
      [] OTHER -> "retry"

\* the attempt met an SSLError and posted to the http:// fallback
UsedFallback(r) == r \in {"ssl_fb_ok", "ssl_fb_2xx", "ssl_fb_fail"}

\* api_sender.py send_batch, lines 167-180: the row with the payload stored
PendingRow == send_batch_store(start_session(0, TargetCount), 0)

\* send_batch is called; _send_with_retry will meet the answers resps
ClientCall(https, resps) ==
    /\ call.pc = "idle"
    /\ call' = [pc |-> "attempt", https |-> https, resps |-> resps, i |-> 1,
                posts |-> 0, fallbacks |-> 0, waits |-> << >>,
                kind |-> "none", row |-> PendingRow, entry |-> NoEntry]
    /\ UNCHANGED <<batchVars, palletVars>>

\* api_sender.py _send_with_retry, lines 230-353: attempt i of the for loop,
\* with the sleep after it when another attempt follows
ClientAttempt ==
    /\ call.pc = "attempt"
    /\ LET r == call.resps[call.i]
           res == attempt_result(r)
           posted == [call EXCEPT !.posts = @ + 1,
                                  !.fallbacks = IF UsedFallback(r) THEN @ + 1 ELSE @]
       IN  call' =
             CASE res \in {"ok", "fb_ok"} ->
                    [posted EXCEPT !.pc = "record", !.kind = res]
               [] res = "break" ->
                    [posted EXCEPT !.pc = "record", !.kind = "fail"]
               [] OTHER ->
                    IF call.i < API_MAX_RETRIES
                    THEN [posted EXCEPT !.i = @ + 1,
                                        !.waits = Append(@, WaitSeconds(call.i))]
                    ELSE [posted EXCEPT !.pc = "record", !.kind = "fail"]
    /\ UNCHANGED <<batchVars, palletVars>>

\* api_sender.py _send_with_retry lines 278-301 / 355-379 and send_batch lines
\* 183-191: the UPDATE of the row, the retry queue entry, the attention mark
ClientRecord ==
    /\ call.pc = "record"
    /\ call' = [call EXCEPT !.pc = "done",
                            !.row = send_batch_row(@, call.kind),
                            !.entry = send_batch_queue(@, call.kind, 0, 0)]
    /\ UNCHANGED <<batchVars, palletVars>>

ClientInit == Init /\ apiHttps = FALSE

ClientNext ==
    \/ \E https \in BOOLEAN :
         \E resps \in [1..API_MAX_RETRIES -> RespKinds(https)] :
            ClientCall(https, resps)
    \/ ClientAttempt
    \/ ClientRecord

ClientSpec == ClientInit /\ [][ClientNext]_vars

\* ------------------------------------- the station after a week: the sweep
\* a detection that finds every code of the pallet
FullCodes == [i \in 1..TargetCount |-> i]

\* process_worker.py _process_one and api_sender.py send_batch: the row of a
\* complete batch captured at minute 0 whose inline send failed
FailedInlineRow ==
    process_tail_row(
        send_batch_row(
            send_batch_store(
                store_api_payload(
                    store_qr_codes(
                        update_batch_status(start_session(0, TargetCount),
                                            "processing", NULL, FALSE,
                                            "Processing started"),
                        FullCodes),
                    0),
                0),
            "fail"),
        FALSE, FALSE)

\* api_sender.py send_batch line 187 and process_worker.py line 211: the entry
\* of a batch whose inline send failed at minute t
QueuedTwice(t) ==
    add_to_retry_queue(add_to_retry_queue(NoEntry, AddHash(0), t), AddHash(0), t)

\* the entries of such a batch, queued at minute t: never drained since, or
\* drained once without success TickMinutes later
AgedEntries ==
    UNION {{QueuedTwice(t),
            update_retry_attempts(QueuedTwice(t), 3, t + TickMinutes)} :
              t \in 0..SweepSpan - 1}

\* the station went down a week after the batches failed
SweepInit ==
    /\ now = WeekMinutes
    /\ apiHttps \in BOOLEAN
    /\ proc = "down"
    /\ crashes = 1
    /\ recoveries = 0
    /\ db = [b \in Batches |-> FailedInlineRow]
    /\ rq \in [Batches -> AgedEntries]
    /\ pallets = {Fingerprint(FullCodes)}
    /\ accepted = [b \in Batches |-> 0]
    /\ wpc = [b \in Batches |-> "done"]
    /\ wloc = [b \in Batches |-> [already |-> FALSE, res |-> "fail"]]
    /\ mon = [m \in Monitors |-> [list |-> << >>, res |-> "none"]]
    /\ op = [kind |-> "idle"]
    /\ manuals = 0
    /\ plc = << >>
    /\ secs = 0
    /\ cpc = [c \in Callers |-> AtRest]
    /\ pret = [c \in Callers |-> [kind |-> "none"]]
    /\ uret = "none"
    /\ call = NoCall

\* a minute passes
SweepTick ==
    /\ now < WeekMinutes + SweepSpan
    /\ now' = now + 1
    /\ UNCHANGED <<palletVars, call, apiHttps, proc, crashes, recoveries, db, rq,
                   pallets, accepted, wpc, wloc, mon, op, manuals>>

SweepNext ==
    \/ SweepTick
    \/ Start
    \/ Ready
    \/ Recover

SweepSpec == SweepInit /\ [][SweepNext]_vars

\* ------------------------------------------ the station that never crashes
\* a processing task lasts seconds: none is queued or under way across a tick;
\* the monitor loop wakes every retry_interval = 60 seconds: the entries due
\* have been drained when TickMinutes minutes have passed
LiveTick ==
    /\ now + TickMinutes <= LiveMaxNow
    /\ Eligible(rq, now) = {}
    /\ \A b \in Batches : wpc[b] \notin InFlight
    /\ op = Idle
    /\ \A m \in Monitors : mon[m].list = << >>
    /\ now' = now + TickMinutes
    /\ UNCHANGED <<palletVars, call, apiHttps, proc, crashes, recoveries, db, rq,
                   pallets, accepted, wpc, wloc, mon, op, manuals>>

\* captures and operator requests come before the last tick of the clock
Early == now < MaxNow

LiveNext ==
    \/ Early /\ \E b \in Batches : SubmitBatch(b)
    \/ \E b \in Batches : ProcessBegin(b)
    \/ \E b \in Batches, frameOk \in BOOLEAN, codes \in CodeLists, advExc \in BOOLEAN :
         \E o \in Outcomes : ProcessDetect(b, frameOk, codes, advExc, o)
    \/ \E b \in Batches : ProcessReturn(b)
    \/ \E b \in Batches : ProcessTail(b)
    \/ \E m \in Monitors : \E o \in Outcomes : MonitorFetch(m, o)
    \/ \E m \in Monitors : \E o \in Outcomes : MonitorRecord(m, o)
    \/ Early /\ \E b \in Batches : ManualResolve(b)
    \/ Early /\ \E b \in Batches : ResolveAttention(b)
    \/ Early /\ \E b \in Batches : \E o \in Outcomes : RetrySingleStart(b, o)
    \/ Early /\ \E b \in Batches : \E o \in Outcomes : RetryFailedStart(b, o)
    \/ RetrySingleFinish
    \/ RetryFailedReturn
    \/ RetryFailedTail
    \/ LiveTick

\* process_worker.py line 20: the executor's threads run every queued task to
\* its end; the operator's calls return
TasksRun ==
    /\ WF_vars(\E b \in Batches : ProcessBegin(b))
    /\ WF_vars(\E b \in Batches, frameOk \in BOOLEAN, codes \in CodeLists,
                  advExc \in BOOLEAN :
                  \E o \in Outcomes : ProcessDetect(b, frameOk, codes, advExc, o))
    /\ WF_vars(\E b \in Batches : ProcessReturn(b))
    /\ WF_vars(\E b \in Batches : ProcessTail(b))
    /\ WF_vars(RetrySingleFinish)
    /\ WF_vars(RetryFailedReturn)
    /\ WF_vars(RetryFailedTail)

\* api_sender.py _retry_monitor_loop, lines 442-455: while self.running the
\* thread drains the queue (network_online is True) and sleeps retry_interval
SchedulerTicks ==
    /\ WF_vars(\E m \in Monitors : \E o \in Outcomes : MonitorFetch(m, o))
    /\ WF_vars(\E m \in Monitors : \E o \in Outcomes : MonitorRecord(m, o))
    /\ WF_vars(LiveTick)

LiveSpec == Init /\ [][LiveNext]_vars /\ TasksRun /\ SchedulerTicks

\* =================================================================== claims
Terminal == {"api_sent", "manual_resolved"}

EntryEligible(e) == e.present /\ e.attempts < e.max_attempts

Exhausted(e) == e.present /\ e.attempts >= e.max_attempts

\* send_batch returns to _process_one or to retry_failed_batch for batch b
\* with result kind
SendBatchReturns(b, kind) ==
    \/ wpc[b] = "responded" /\ wloc[b].res = kind /\ wpc'[b] = "returned"
    \/ /\ op.kind = "retry_failed" /\ op.sid = b /\ op.res = kind
       /\ op'.kind = "retry_failed_returned"

\* a retry monitor is through with the first of its fetched rows, a row of
\* batch b sent with result kind
MonitorReturns(b, kind) ==
    \E m \in Monitors :
        /\ mon[m].list # << >> /\ Head(mon[m].list).sid = b
        /\ mon[m].res = kind
        /\ mon'[m].list = Tail(mon[m].list)
        /\ crashes' = crashes

\* retry_single_batch returns for batch b with result kind
RetrySingleReturns(b, kind) ==
    /\ op.kind = "retry_single" /\ op.sid = b /\ op.res = kind
    /\ op' = Idle /\ crashes' = crashes

\* _send_with_retry returns for batch b with result kind: to send_batch, to a
\* retry monitor or to retry_single_batch
DeliveryReturns(b, kind) ==
    \/ SendBatchReturns(b, kind)
    \/ MonitorReturns(b, kind)
    \/ RetrySingleReturns(b, kind)

SuccessKinds == {"ok", "fb_ok"}

\* a successful send of batch b has run to its end: the monitor's drain of
\* one row, retry_single_batch, retry_failed_batch or _process_one
SuccessfulSendCompletes(b) ==
    \/ \E kind \in SuccessKinds : MonitorReturns(b, kind)
    \/ \E kind \in SuccessKinds : RetrySingleReturns(b, kind)
    \/ /\ op.kind = "retry_failed_returned" /\ op.sid = b /\ Succeeded(op.res)
       /\ op' = Idle /\ crashes' = crashes
    \/ wpc[b] = "returned" /\ Succeeded(wloc[b].res) /\ wpc'[b] = "done"

\* C1: the remote service answers 2xx to at most one delivery of each batch
C1_AtMostOneAccepted ==
    \A b \in Batches : accepted[b] <= 1

\* C2: when recover_system has completed, every batch whose status is neither
\* api_sent nor manual_resolved has a retry queue entry with
\* attempts < max_attempts or has require_attention set
C2_RecoveryLeavesNothingUnhandled ==
    [][recoveries' = recoveries + 1 =>
         \A b \in Batches :
            (db'[b].status \notin Terminal \cup {"absent"}) =>
                (EntryEligible(rq'[b]) \/ db'[b].attention)]_vars

\* C3: once a batch's status is api_sent no step of the processing task, a
\* drain, a manual retry, a manual resolve or recovery changes it
C3_ApiSentIsTerminal ==
    [][~(proc = "down" /\ proc' = "starting") =>
         \A b \in Batches :
            db[b].status = "api_sent" => db'[b].status = "api_sent"]_vars

\* C4: once a batch's status is manual_resolved no drain, manual retry or
\* recovery run changes it
C4_ManualResolvedIsTerminal ==
    [][(mon' # mon \/ op' # op \/ recoveries' # recoveries) =>
         \A b \in Batches :
            db[b].status = "manual_resolved" =>
                db'[b].status = "manual_resolved"]_vars

AttentionHasReason(r) == r.attention => r.reason # NULL

\* the attention reasons passed at the call sites of update_batch_status
AttentionReasons ==
    {"Frame read error", "Advanced detection error",
     "Batch miss - incomplete QRs", "API send exception", "API failure",
     "Processing crashed"}

\* every single UPDATE of a row by which the worker, the delivery client or
\* recovery sets require_attention
AttentionUpdates(r) ==
    {update_batch_status(r, "api_failed", "error", TRUE, why) :
        why \in AttentionReasons}
    \cup {mark_for_attention(r, why) : why \in AttentionReasons}
    \cup {send_with_retry_record(r, "fail"), recover_stuck(r, now), recover_miss(r)}

\* C5: in every reachable state require_attention implies a non-empty
\* attention_reason, and no single UPDATE of the worker, the delivery client or
\* recovery applied to a row of that state yields the flag without a reason
C5_AttentionHasReason ==
    \A b \in Batches :
        /\ AttentionHasReason(db[b])
        /\ \A r \in AttentionUpdates(db[b]) : AttentionHasReason(r)

C5_Witness ==
    \E b \in Batches :
        /\ db[b].attention /\ db[b].reason = "Send failure"
        /\ db[b].status = "api_failed"

\* C6: no state has require_attention = false together with a non-empty
\* attention_reason
C6_ClearedAttentionHasNoReason ==
    \A b \in Batches : ~db[b].attention => db[b].reason = NULL

\* C7: when send_batch returns false the batch is api_failed with
\* require_attention set and the retry queue holds an entry for the batch with
\* the payload as it was sent (the stored payload and its hash field)
C7_FailedSendIsQueued ==
    [][\A b \in Batches :
         SendBatchReturns(b, "fail") =>
            /\ db'[b].status = "api_failed"
            /\ db'[b].attention
            /\ rq'[b].present
            /\ rq'[b].payload = AddHash(db'[b].payload)]_vars

C7_Witness ==
    \E b \in Batches :
        /\ wpc[b] = "returned" /\ ~Succeeded(wloc[b].res)
        /\ db[b].status = "api_failed" /\ db[b].attention
        /\ rq[b].present /\ rq[b].payload = AddHash(db[b].payload)

\* C8: when the delivery client returns success for a batch, on the primary or
\* on the fallback channel, the stored status is api_sent and the response is
\* stored
C8_SuccessIsRecorded ==
    [][\A b \in Batches :
         (\E kind \in SuccessKinds : DeliveryReturns(b, kind)) =>
            (db'[b].status = "api_sent" /\ db'[b].response # NULL)]_vars

\* C9: when a successful drain, manual retry or inline submission has
\* completed, the retry queue holds no entry for the batch
C9_SuccessRemovesEntry ==
    [][\A b \in Batches : SuccessfulSendCompletes(b) => ~rq'[b].present]_vars

C9_Witness ==
    \E b \in Batches :
        /\ db[b].status = "api_sent" /\ db[b].response # NULL
        /\ db[b].apiStatus = "failed"
        /\ ~rq[b].present

\* C10: a monitor tick sends only rows with next_retry <= now and
\* attempts < max_attempts, by increasing next_retry and at most DrainLimit of
\* them, and an entry whose attempts reached max_attempts never becomes
\* drainable again
C10_OnlyEligibleEntriesDrained ==
    [][/\ \A m \in Monitors :
            (mon[m].list = << >> /\ mon'[m].list # << >>) =>
                LET rows == mon'[m].list IN
                /\ Len(rows) <= DrainLimit
                /\ \A i \in 1..Len(rows) : rows[i].sid \in Eligible(rq, now)
                /\ \A i, j \in 1..Len(rows) :
                      i < j => rq[rows[i].sid].next_retry
                                   <= rq[rows[j].sid].next_retry
       /\ \A b \in Batches : Exhausted(rq[b]) => ~EntryEligible(rq'[b])]_vars

\* C11: when a scheduled drain of an entry fails, the entry's attempts grow by
\* exactly one and its next_retry becomes now + 2^attempts minutes, attempts
\* being the incremented count, without a cap
C11_FailedDrainIncrements ==
    [][\A b \in Batches :
         (MonitorReturns(b, "fail") /\ rq[b].present) =>
            /\ rq'[b].present
            /\ rq'[b].attempts = rq[b].attempts + 1
            /\ rq'[b].next_retry = now + 2 ^ rq'[b].attempts]_vars

\* the delay of an entry: next_retry minus the time its last failure was recorded
Backoff(e) == e.next_retry - e.last_attempt

\* a failure is recorded on the entry of batch b, which held an earlier one
FailureRecordedAgain(b) ==
    /\ rq[b].present /\ rq[b].last_attempt # Null
    /\ rq'[b].present /\ rq'[b] # rq[b]
    /\ recoveries' = recoveries

\* C12: from one recorded failure of an entry to the next, whoever records
\* them, the backoff delay never decreases
C12_BackoffNeverDecreases ==
    [][\A b \in Batches :
         FailureRecordedAgain(b) => Backoff(rq'[b]) >= Backoff(rq[b])]_vars

\* C13: whenever an entry's attempts have reached max_attempts and its batch
\* was neither delivered nor manually resolved, the batch is api_failed with
\* require_attention set
C13_ExhaustedIsSurfaced ==
    \A b \in Batches :
        (Exhausted(rq[b]) /\ db[b].status \notin Terminal /\ accepted[b] = 0) =>
            (db[b].status = "api_failed" /\ db[b].attention)

\* recover_system has run to its end in this step
RecoveryCompletes == recoveries' = recoveries + 1

\* the batch row was processing or api_pending and older than the staleness
\* threshold at time t
WasStale(r, t) ==
    r.status \in {"processing", "api_pending"} /\ t - r.ts > StaleMinutes

\* C14: after recover_system every batch that was processing or api_pending
\* and older than 10 minutes is api_failed with require_attention set and the
\* reason 'Stuck during system restart'
C14_StaleBatchesAreFailed ==
    [][RecoveryCompletes =>
         \A b \in Batches :
            WasStale(db[b], now) =>
                /\ db'[b].status = "api_failed"
                /\ db'[b].attention
                /\ db'[b].reason = "Stuck during system restart"]_vars

\* the batch row was api_pending with no attempt counted, a stored payload and
\* an age below 24 hours at time t
WasPendingUnsent(r, t) ==
    /\ r.status = "api_pending" /\ r.apiAttempts = 0
    /\ r.payload # Null /\ t - r.ts < DayMinutes

\* C15: after recover_system every batch that was api_pending with zero
\* attempts, a stored payload and an age below 24 hours has a retry queue entry
\* with that payload and next_retry not later than the recovery time
C15_PendingBatchesAreRequeued ==
    [][RecoveryCompletes =>
         \A b \in Batches :
            WasPendingUnsent(db[b], now) =>
                /\ rq'[b].present
                /\ rq'[b].payload = db[b].payload
                /\ rq'[b].next_retry <= now]_vars

\* submit_batch takes batch b in this step
BatchAccepted(b) == db[b].status = "absent" /\ db'[b].status = "captured"

\* C16: recover_system has run exactly once for the current process start,
\* the first start included, before a batch is accepted by submit_batch
C16_RecoveryBeforeFirstBatch ==
    [][\A b \in Batches : BatchAccepted(b) => recoveries = crashes + 1]_vars

PalletFingerprints == {Fingerprint(codes) : codes \in PalletCodeLists}

\* the rows of the registry that carry fingerprint fp and are not SHIPPED
OpenRecords(fp) ==
    {i \in 1..Len(plc) : plc[i].qr_codes = fp /\ plc[i].status # "SHIPPED"}

\* C18: after any sequence of create_pallet and update_pallet_status calls,
\* concurrent ones included, at most one pallet record of a fingerprint has a
\* status other than SHIPPED
C18_AtMostOneOpenPallet ==
    \A fp \in PalletFingerprints : Cardinality(OpenRecords(fp)) <= 1

\* the create_pallet call of caller c passes its duplicate check in this step:
\* it returns the rejection or goes on to insert
CreateDecides(c) == cpc[c].pc = "check" /\ cpc'[c].pc # "check"

CreateRejected(c) == cpc'[c].pc = "idle" /\ pret'[c].kind = "rejected"

\* C19: create_pallet is rejected if and only if some record of its
\* fingerprint has a status other than SHIPPED; the rejection returns the
\* pallet id and status of such a record and creates no record
C19_RejectedIffOpenRecord ==
    [][\A c \in Callers :
         CreateDecides(c) =>
            LET open == OpenRecords(Fingerprint(cpc[c].qr_codes))
            IN  /\ CreateRejected(c) <=> open # {}
                /\ CreateRejected(c) =>
                      /\ plc' = plc
                      /\ \E i \in open :
                            /\ pret'[c].pallet_id = plc[i].pallet_id
                            /\ pret'[c].status = plc[i].status]_vars

\* update_pallet_status(pallet_id, new_status) moves row i into SHIPPED
IntoShipped(i, pallet_id, new_status) ==
    /\ plc[i].pallet_id = pallet_id
    /\ new_status = "SHIPPED"
    /\ plc[i].status # "SHIPPED"

\* C20: update_pallet_status with a status outside the allowed set returns
\* the error and changes no record, and a call writes shipped_at of a record
\* exactly when it moves that record into SHIPPED
C20_ShippedStampOnTransition ==
    [][\A id \in PalletIds, st \in StatusInputs :
         UpdatePalletStatus(id, st) =>
            /\ st \notin PALLET_STATUS => (plc' = plc /\ uret' = "INVALID_STATUS")
            /\ \A i \in 1..Len(plc) :
                  IF IntoShipped(i, id, st)
                  THEN plc'[i].shipped_at = secs
                  ELSE plc'[i].shipped_at = plc[i].shipped_at]_vars

\* ------------------------------------------------------------ fingerprints
\* every code list of at most MaxCodes codes out of 1..NumCodes
AllCodeLists == UNION {[1..n -> 1..NumCodes] : n \in 0..MaxCodes}

\* how often code x occurs in the list
Occurrences(codes, x) == Cardinality({i \in 1..Len(codes) : codes[i] = x})

\* the pairs of code lists that are orderings of the same codes
Reorderings ==
    {p \in AllCodeLists \X AllCodeLists :
        /\ Len(p[1]) = Len(p[2])
        /\ \A x \in 1..NumCodes : Occurrences(p[1], x) = Occurrences(p[2], x)}

\* processed_pallets tables of at most one row
SmallRegistries == {{}} \cup {{Fingerprint(codes)} : codes \in AllCodeLists}

\* is_pallet_processed and mark_pallet_processed do not tell two orderings of
\* the same codes apart, on every processed_pallets table of at most one row
\* and every expected count
RegistryOrderFree ==
    \A p \in Reorderings, set \in SmallRegistries, n \in 0..MaxCodes :
        /\ Fingerprint(p[1]) = Fingerprint(p[2])
        /\ pallet_in_registry(set, p[1], n) = pallet_in_registry(set, p[2], n)
        /\ mark_pallet_processed(set, p[1], n) = mark_pallet_processed(set, p[2], n)

\* C21: is_pallet_processed, mark_pallet_processed and check_pallet_duplicate
\* give the same result for any two orderings of the same codes, the last on
\* every pallet_lifecycle table the registry reaches
C21_OrderDoesNotMatter ==
    /\ RegistryOrderFree
    /\ \A p \in Reorderings :
          check_pallet_duplicate(plc, p[1]) = check_pallet_duplicate(plc, p[2])

\* two create_pallet calls with different orderings of the same codes are at
\* their duplicate check while a record of these codes exists
C21_Witness ==
    /\ \E c, d \in Callers :
          /\ cpc[c].pc = "check" /\ cpc[d].pc = "check"
          /\ cpc[c].qr_codes # cpc[d].qr_codes
          /\ <<cpc[c].qr_codes, cpc[d].qr_codes>> \in Reorderings
          /\ check_pallet_duplicate(plc, cpc[c].qr_codes).pallet_id # Null

\* is_pallet_processed and mark_pallet_processed on a code list whose length
\* is not the expected count: no match, no row
NoFingerprintOffCount ==
    \A codes \in AllCodeLists, set \in SmallRegistries, n \in 0..MaxCodes :
        Len(codes) # n =>
            /\ ~pallet_in_registry(set, codes, n)
            /\ mark_pallet_processed(set, codes, n) = set

\* _process_one of batch b gets through its detection in this step
DetectionDone(b) ==
    wpc[b] = "detecting" /\ wpc'[b] # "detecting" /\ crashes' = crashes

\* C22: when the number of codes differs from the expected count,
\* is_pallet_processed reports no match and mark_pallet_processed leaves the
\* registry as it is, and a batch whose detection stores a number of codes
\* other than its target, or none, adds no row to processed_pallets
C22_NoFingerprintOffCount ==
    [][/\ NoFingerprintOffCount
       /\ \A b \in Batches :
             (DetectionDone(b) /\ db'[b].decoded # db'[b].target) =>
                 pallets' = pallets]_vars

C22_Witness ==
    \E b \in Batches :
        /\ wpc[b] = "responded"
        /\ db[b].decoded # Null
        /\ db[b].decoded # db[b].target
        /\ pallets = {}

\* batch b has been delivered: the service answered 2xx to one of its sends,
\* or its row says api_sent
Delivered(b) == accepted[b] > 0 \/ db[b].status = "api_sent"

\* C23: processed_pallets holds a row only when a batch has been delivered
\* successfully; a batch whose delivery failed adds none
C23_RegisteredOnlyIfDelivered ==
    pallets # {} => \E b \in Batches : Delivered(b)

\* C24: a batch whose codes are those of a pallet already in processed_pallets
\* goes on to its delivery attempt: its task leaves the detection with the
\* POSTs of send_batch made
C24_DuplicateIsStillSent ==
    [][\A b \in Batches :
         (DetectionDone(b) /\ wloc'[b].already) => wpc'[b] = "responded"]_vars

C24_Witness ==
    \E b \in Batches :
        wloc[b].already /\ wpc[b] = "responded" /\ accepted[b] > 0

\* the row of batch b goes into api_failed in this step
IntoApiFailed(b) == db[b].status # "api_failed" /\ db'[b].status = "api_failed"

\* C25: a step that takes a batch into api_failed adds exactly one to its
\* api_attempts, and no other step changes api_attempts (the detection step,
\* which makes several updates of the row at once, is left aside)
C25_AttemptsCountFailures ==
    [][\A b \in Batches :
         ~DetectionDone(b) =>
            IF IntoApiFailed(b)
            THEN db'[b].apiAttempts = db[b].apiAttempts + 1
            ELSE db'[b].apiAttempts = db[b].apiAttempts]_vars

\* the moves of batch_status the lifecycle allows out of api_failed and into
\* processing
AllowedMove(from, to) ==
    \/ from = to
    \/ /\ from = "api_failed" => to \in {"api_pending", "manual_resolved"}
       /\ to = "processing" => from = "captured"

\* process_worker.py _process_one, lines 62-118: the row after each of the
\* updates the detection makes, up to store_qr_codes
DetectionRows(r, codes, advExc) ==
    LET failed == advanced_error(r, advExc)
        warned == duplicate_warning(failed, is_pallet_processed(codes, r.target))
    IN  <<r, failed, warned, store_qr_codes(warned, codes)>>

\* C26: a batch leaves api_failed only to api_pending or manual_resolved, and
\* processing is entered only from captured: in every step of a batch, and
\* from update to update inside the detection step
C26_FailedNeverReprocessed ==
    [][/\ \A b \in Batches :
             ~DetectionDone(b) => AllowedMove(db[b].status, db'[b].status)
       /\ \A b \in Batches, codes \in CodeLists, advExc \in BOOLEAN :
             (wpc[b] = "detecting" /\ (advExc => Len(codes) < db[b].target)) =>
                LET rows == DetectionRows(db[b], codes, advExc)
                IN  \A i \in 1..(Len(rows) - 1) :
                       AllowedMove(rows[i].status, rows[i + 1].status)]_vars

\* the answers with a 200 or 201 that end a call with success
SuccessAnswers == {"ok", "ssl_fb_ok"}

Answers2xx == {"ok", "other2xx", "ssl_fb_ok", "ssl_fb_2xx"}

\* the attempt that meets answer r is made in this step
AttemptMeets(r) == call.pc = "attempt" /\ call.resps[call.i] = r /\ call' # call

\* the call ends with success in this step
CallSucceeds == call'.pc = "record" /\ call'.kind \in {"ok", "fb_ok"}

\* the call goes on to its next attempt, or has used its last one and fails
CallRetries ==
    IF call.i < API_MAX_RETRIES
    THEN call'.pc = "attempt" /\ call'.i = call.i + 1
    ELSE call'.pc = "record" /\ call'.kind = "fail"

\* C28: an attempt answered with any 2xx status, on the primary or the
\* fallback channel, ends the call with success; any other answer, a timeout
\* or a network error is a failure that is retried
C28_Every2xxIsSuccess ==
    [][\A r \in RespKinds(TRUE) \ {"exc"} :
         AttemptMeets(r) =>
            IF r \in Answers2xx THEN CallSucceeds ELSE CallRetries]_vars

\* the loop of the call has ended on an unexpected exception
EndedOnException ==
    call.pc \in {"record", "done"} /\ call.resps[call.posts] = "exc"

\* C29: an unexpected exception in an attempt ends the loop at once: no
\* attempt is made after it and the call fails; send_batch then leaves the
\* batch api_failed with an entry in the retry queue
C29_ExceptionAbortsAndQueues ==
    /\ call.pc # "idle" =>
          \A j \in 1..(call.posts - 1) : call.resps[j] # "exc"
    /\ EndedOnException => call.kind = "fail"
    /\ (EndedOnException /\ call.pc = "done") =>
          /\ call.row.status = "api_failed"
          /\ call.entry.present
          /\ call.entry.attempts < call.entry.max_attempts

C29_Witness ==
    /\ EndedOnException
    /\ call.pc = "done"
    /\ call.posts = 1
    /\ call.entry.present

\* the payload a correct delivery posts: the bare payload and its hash field
RightlyHashed == AddHash(0)

\* C30: on every delivery attempt, inline, by a retry monitor or by a manual
\* retry, the payload posted is the bare payload with the hash of that bare
\* payload: the payload handed to _send_with_retry carries no hash field that
\* the new hash would cover
C30_HashCoversBarePayload ==
    /\ \A b \in Batches :
          wpc[b] = "responded" => AddHash(db[b].payload) = RightlyHashed
    /\ op.kind \in {"retry_single", "retry_failed"} =>
          AddHash(db[op.sid].payload) = RightlyHashed
    /\ \A m \in Monitors :
          mon[m].list # << >> =>
              AddHash(Head(mon[m].list).payload) = RightlyHashed

\* a retry monitor writes the entry of the row it sent: _update_retry_attempts
\* with the attempts of its SELECT plus one
MonitorWrites(m) ==
    /\ mon[m].list # << >>
    /\ mon'[m] # mon[m]
    /\ crashes' = crashes
    /\ rq[Head(mon[m].list).sid].present

\* C31: read-modify-write sequences on one retry-queue entry never interleave:
\* when a retry monitor writes attempts + 1, the attempts it read are still the
\* attempts of the entry, so no increment of another writer is overwritten by
\* a stale one
C31_NoStaleWrite ==
    [][\A m \in Monitors :
          MonitorWrites(m) =>
              Head(mon[m].list).attempts = rq[Head(mon[m].list).sid].attempts]_vars

\* the sessions whose retry-queue rows monitor m has selected and not yet
\* finished with
Draining(m) == {mon[m].list[i].sid : i \in 1..Len(mon[m].list)}

\* C32: at most one scheduler loop drains the retry queue: no retry-queue entry
\* is selected and sent by two drains at the same time
C32_OneDrainAtATime ==
    \A m1, m2 \in Monitors : m1 # m2 => Draining(m1) \cap Draining(m2) = {}

\* the entry is older than the retention window at time t
PastRetention(e, t) == e.present /\ t - e.created_at > WeekMinutes

\* the steps of recover_system that write batch rows leave row r alone: it is
\* neither stale nor short of codes
RowAtRest(r, t) ==
    ~WasStale(r, t) /\ ~(r.decoded # Null /\ r.decoded < r.target)

\* C33: the sweep of recover_system deletes exactly the retry-queue entries
\* that are exhausted and older than 7 days, keeps every other entry as it is,
\* and the batch row of a swept entry is left as it was
C33_SweepDeletesExhaustedOld ==
    [][RecoveryCompletes =>
         \A b \in Batches :
            /\ (Exhausted(rq[b]) /\ PastRetention(rq[b], now)) =>
                   /\ ~rq'[b].present
                   /\ RowAtRest(db[b], now) => db'[b] = db[b]
            /\ (rq[b].present /\ ~(Exhausted(rq[b]) /\ PastRetention(rq[b], now))) =>
                   rq'[b] = rq[b]]_vars

C33_Witness ==
    \E b \in Batches :
        /\ recoveries = 1
        /\ now > WeekMinutes
        /\ ~rq[b].present
        /\ db[b] = FailedInlineRow

\* the batch is CAPTURED, PROCESSING or API_PENDING
InProgress(b) == db[b].status \in {"captured", "processing", "api_pending"}

\* the batch is API_SENT, or API_FAILED with attention raised
Settled(b) ==
    \/ db[b].status = "api_sent"
    \/ db[b].status = "api_failed" /\ db[b].attention

\* C34: absent a crash, every batch that is CAPTURED, PROCESSING or
\* API_PENDING is eventually left in API_SENT or in API_FAILED with attention
\* raised by its processing task or retry
C34_EveryBatchSettles ==
    \A b \in Batches : InProgress(b) ~> Settled(b)

\* no delivery of batch b was attempted or prepared: no payload is stored, the
\* service accepted nothing, nothing is queued and no retry of it is under way
NeverSent(b) ==
    /\ db[b].payload = Null
    /\ accepted[b] = 0
    /\ ~rq[b].present
    /\ wpc[b] \notin {"responded", "returned"}
    /\ op.kind # "idle" => op.sid # b
    /\ \A m \in Monitors : b \notin Draining(m)

\* C35: a batch with no decoded codes is never sent, and its processing task
\* ends with the batch in API_FAILED with requires_attention set
C35_EmptyBatchIsNotSent ==
    [][\A b \in Batches :
          /\ db[b].decoded = 0 => NeverSent(b)
          /\ (DetectionDone(b) /\ db'[b].decoded = 0) =>
                 /\ wpc'[b] = "done"
                 /\ accepted' = accepted
                 /\ db'[b].status = "api_failed"
                 /\ db'[b].attention]_vars

C35_Witness ==
    \E b \in Batches :
        /\ db[b].decoded = 0
        /\ wpc[b] = "done"
        /\ db[b].status = "api_failed"
        /\ db[b].attention
        /\ manuals = MaxManual

\* C36: no batch in API_SENT has requires_attention set: every path that
\* records a successful delivery (inline submission, scheduled drain, manual
\* retry) has cleared the attention flag when it ends
C36_SentHasNoAttention ==
    [][\A b \in Batches :
          (SuccessfulSendCompletes(b) /\ db'[b].status = "api_sent") =>
              ~db'[b].attention]_vars

\* C37: once a batch has been manually resolved it never again has
\* requires_attention set: no recovery run, scheduled drain or retry raises
\* the flag of a batch that is MANUAL_RESOLVED and whose processing task is
\* over
C37_ResolvedStaysQuiet ==
    [][\A b \in Batches :
          (/\ db[b].status = "manual_resolved" /\ ~db[b].attention
           /\ wpc[b] \notin InFlight) =>
              ~db'[b].attention]_vars

\* the processing task of batch b ends in this step
TaskEnds(b) == wpc[b] \in InFlight /\ wpc'[b] = "done"

\* C38: a batch whose decoded-code count is below its target finishes
\* processing with requires_attention set, whether or not its delivery succeeds
C38_MissFinishesWithAttention ==
    [][\A b \in Batches :
          (/\ TaskEnds(b)
           /\ db'[b].decoded # Null
           /\ db'[b].decoded < db'[b].target) => db'[b].attention]_vars

\* the processing task of batch b ends in this step after a send that failed,
\* and the batch had no retry-queue entry when the send began
FirstSubmissionFailed(b) ==
    /\ wpc[b] = "returned" /\ wpc'[b] = "done"
    /\ ~Succeeded(wloc[b].res)
    /\ manuals = 0

\* C39: after a batch's first failed submission through the processing task
\* its retry-queue entry records exactly one attempt, and each later failed
\* drain raises the entry's attempt count by exactly one
C39_OneAttemptPerFailedRound ==
    [][\A b \in Batches :
          /\ FirstSubmissionFailed(b) =>
                (rq'[b].present /\ rq'[b].attempts = 1)
          /\ (MonitorReturns(b, "fail") /\ rq[b].present) =>
                rq'[b].attempts = rq[b].attempts + 1]_vars

\* C40: while the scheduler keeps ticking and the network is reported online,
\* every retry-queue entry that is eligible for draining is eventually deleted
\* after a successful send or exhausted: none stays eligible for ever
C40_NoEntryEligibleForEver ==
    \A b \in Batches : EntryEligible(rq[b]) ~> ~EntryEligible(rq[b])

\* a scheduled drain that failed has exhausted the entry
C40_Witness ==
    \E b \in Batches :
        /\ Exhausted(rq[b])
        /\ rq[b].last_attempt >= TickMinutes
        /\ rq[b].next_retry = rq[b].last_attempt + Pow2(rq[b].attempts)
        /\ \A m \in Monitors : mon[m].list = << >>

====
